---- MODULE Spec2Model ----
(***************************************************************************)
(* A model of util.py: ForwardFillSeries (a forward-filling ordered        *)
(* mapping), Counter (a dict of numbers defaulting to 0) and the sampling  *)
(* functions sample, nSample and chooseFromDistribution.                   *)
(*                                                                         *)
(* Three families of specifications share the module:                      *)
(*   SpecSeries, SpecShared  - ForwardFillSeries (one instance / two       *)
(*                             instances sharing the constructor default)  *)
(*   SpecCounter             - Counter                                     *)
(*   SpecSample              - sample, nSample, chooseFromDistribution     *)
(***************************************************************************)
EXTENDS Integers, Sequences, FiniteSets, TLC

VARIABLES
  heap,         \* OrderedDict objects: object id -> sequence of <<key, value>>
  ref,          \* ForwardFillSeries instance -> object id held in self.items
  default_val,  \* ForwardFillSeries instance -> self.default_val
  ffsRet,       \* the last ForwardFillSeries call and what it returned or raised
  lastSet,      \* history: instance -> key -> value most recently set (None: never)
  solo,         \* history: instance -> the entries its own calls produce, by value
  ctr,          \* the Counter: key -> number
  ctrRet,       \* the last Counter call, its result, and for a call that reads
                \* its receiver (getitem, normalize) the receiver before it
  arithCalls,   \* how many calls have done arithmetic on a Counter in place
  smpRet,       \* the last call of sample or chooseFromDistribution and its result
  pc,           \* nSample: "idle", "loop" (line 289), "done" or "IndexError"
  distribution, \* nSample: its locals, named as in the source
  values,
  n,
  rand,
  samplePos,
  distPos,
  cdf,
  samples

ffsVars == <<heap, ref, default_val, ffsRet, lastSet, solo>>
ctrVars == <<ctr, ctrRet, arithCalls>>
nsVars == <<pc, distribution, values, n, rand, samplePos, distPos, cdf, samples>>
smpVars == <<smpRet, nsVars>>
vars == <<ffsVars, ctrVars, smpVars>>

-----------------------------------------------------------------------------
(* Bounds of the model. *)
MaxKey == 3        \* keys of a series are 1..MaxKey, queries 0..MaxKey+1
MaxVal == 1        \* values stored in a series are 0..MaxVal
SharedMaxKey == 2  \* keys used when two instances are interleaved
MaxCtrKey == 1     \* keys of a Counter are 0..MaxCtrKey
MaxArith == 1      \* a run makes at most this many calls that do arithmetic on
                   \* a Counter in place (normalize, divideAll, incrementAll,
                   \* __radd__)
MaxLen == 3        \* a distribution has 1..MaxLen entries
MaxN == 2          \* nSample is asked for 0..MaxN samples

\* Python's None, kept apart from every number the model stores.
None == -1

Keys == 1..MaxKey
Queries == 0..(MaxKey + 1)
Vals == 0..MaxVal
Defaults == {None} \cup Vals
Insts == {1, 2}
\* Object 0 is the OrderedDict() built once, when the def statement of
\* __init__ is executed; the others are the objects __setitem__ allocates.
SharedDefault == 0
ObjIds == 0..(Cardinality(Insts) + 1)

-----------------------------------------------------------------------------
(* Python helpers *)

\* bool(x) for None and for numbers
Truthy(x) == x /= None /\ x /= 0

Ok(v) == [kind |-> "ok", val |-> v]
Raise(e) == [kind |-> e, val |-> None]

\* OrderedDict.keys(): the keys in order
KeysOf(items) == [j \in 1..Len(items) |-> items[j][1]]

KeySet(items) == {items[j][1] : j \in 1..Len(items)}

\* OrderedDict.__getitem__ for a key the mapping holds
Lookup(items, key) ==
  items[CHOOSE j \in 1..Len(items) : items[j][1] = key][2]

RECURSIVE bisect_loop(_, _, _, _)
bisect_loop(a, x, lo, hi) ==
  IF lo < hi
  THEN LET mid == (lo + hi) \div 2
       IN  IF x < a[mid + 1]
           THEN bisect_loop(a, x, lo, mid)
           ELSE bisect_loop(a, x, mid + 1, hi)
  ELSE lo

RECURSIVE bisect_left_loop(_, _, _, _)
bisect_left_loop(a, x, lo, hi) ==
  IF lo < hi
  THEN LET mid == (lo + hi) \div 2
       IN  IF a[mid + 1] < x
           THEN bisect_left_loop(a, x, mid + 1, hi)
           ELSE bisect_left_loop(a, x, lo, mid)
  ELSE lo

\* bisect.bisect_left: what bisect_right becomes if the wrong bisect is called
bisect_left(a, x) == bisect_left_loop(a, x, 0, Len(a))

\* bisect.bisect_right(a, x): 0-based insertion point after any entry equal to x
bisect_right(a, x) == bisect_loop(a, x, 0, Len(a))

\* list.insert(index, item), index 0-based
ListInsert(s, index, item) ==
  SubSeq(s, 1, index) \o <<item>> \o SubSeq(s, index + 1, Len(s))

\* OrderedDict(pairs): a key keeps the position of its first pair and takes
\* the value of its last pair
RECURSIVE OrderedDictFrom(_, _)
OrderedDictFrom(pairs, acc) ==
  IF pairs = <<>> THEN acc
  ELSE LET p == Head(pairs)
       IN  OrderedDictFrom(Tail(pairs),
             IF p[1] \in KeySet(acc)
             THEN [j \in 1..Len(acc) |->
                     IF acc[j][1] = p[1] THEN p ELSE acc[j]]
             ELSE Append(acc, p))

OrderedDict(pairs) == OrderedDictFrom(pairs, <<>>)

-----------------------------------------------------------------------------
(* ForwardFillSeries, as functions of the mapping held in self.items *)

\* __getitem__: the result of self[key]
FFS_getitem(items, dflt, key) ==
  LET keys == KeysOf(items)
      index == bisect_right(keys, key) - 1
  IN  IF index < 0
      THEN IF Truthy(dflt) THEN Ok(dflt) ELSE Raise("KeyError")
      ELSE Ok(Lookup(items, keys[index + 1]))

\* a __setitem__ that appends instead of inserting at the bisection point
FFS_setitem_append(items, key, value) ==
  OrderedDict(Append(items, <<key, value>>))

\* __setitem__: the mapping assigned to self.items
FFS_setitem(items, key, value) ==
  LET keys == KeysOf(items)
      index == bisect_right(keys, key)
  IN  OrderedDict(ListInsert(items, index, <<key, value>>))

\* del d[key] on an OrderedDict holding key
DictDel(items, key) == SelectSeq(items, LAMBDA p : p[1] /= key)

-----------------------------------------------------------------------------
(* ForwardFillSeries instances over a heap of OrderedDict objects *)

ItemsOf(i) == heap[ref[i]]

\* The object a constructor call returns: one no live reference names.
NewObj(i) ==
  CHOOSE o \in ObjIds :
    /\ o /= SharedDefault
    /\ \A j \in Insts : ref[j] /= o
    /\ \A p \in ObjIds :
         (p /= SharedDefault /\ \A j \in Insts : ref[j] /= p) => o <= p

\* Objects no instance refers to any more are collected.
Collect(h, r) ==
  [o \in ObjIds |->
     IF o = SharedDefault \/ \E j \in Insts : r[j] = o THEN h[o] ELSE <<>>]

\* a __setitem__ that inserts into the mapping it holds instead of rebinding
SetItemInPlace(i, key, value) ==
  /\ heap' = [heap EXCEPT ![ref[i]] = FFS_setitem(ItemsOf(i), key, value)]
  /\ ref' = ref
  /\ ffsRet' = [op |-> "set", inst |-> i, key |-> key, res |-> Ok(None),
                had |-> key \in KeySet(ItemsOf(i))]
  /\ UNCHANGED default_val

\* self[key] = value: self.items is rebound to a new OrderedDict
SetItem(i, key, value) ==
  LET o == NewObj(i)
      r == [ref EXCEPT ![i] = o]
  IN  /\ ref' = r
      /\ heap' = Collect([heap EXCEPT ![o] = FFS_setitem(ItemsOf(i), key, value)], r)
      /\ ffsRet' = [op |-> "set", inst |-> i, key |-> key, res |-> Ok(None),
                had |-> key \in KeySet(ItemsOf(i))]
      /\ UNCHANGED default_val

\* self[key]
GetItem(i, key) ==
  /\ ffsRet' = [op |-> "get", inst |-> i, key |-> key,
                res |-> FFS_getitem(ItemsOf(i), default_val[i], key),
                had |-> key \in KeySet(ItemsOf(i))]
  /\ UNCHANGED <<heap, ref, default_val>>

\* del self[key]: deletes from the OrderedDict object in place
DelItem(i, key) ==
  /\ IF key \in KeySet(ItemsOf(i))
     THEN /\ heap' = [heap EXCEPT ![ref[i]] = DictDel(ItemsOf(i), key)]
          /\ ffsRet' = [op |-> "del", inst |-> i, key |-> key, res |-> Ok(None),
                        had |-> TRUE]
     ELSE /\ heap' = heap
          /\ ffsRet' = [op |-> "del", inst |-> i, key |-> key,
                        res |-> Raise("KeyError"), had |-> FALSE]
  /\ UNCHANGED <<ref, default_val>>

-----------------------------------------------------------------------------
(* History variables: what the calls made so far say, independent of heap *)

NoteLast(i, key, value) == lastSet' = [lastSet EXCEPT ![i][key] = value]

NoteSet(i, key, value) ==
  solo' = [solo EXCEPT ![i] = FFS_setitem(solo[i], key, value)]

NoteDel(i, key) ==
  solo' = [solo EXCEPT ![i] =
             IF key \in KeySet(solo[i]) THEN DictDel(solo[i], key) ELSE solo[i]]

NoCall == [op |-> "none", inst |-> 0, key |-> 0, res |-> Ok(None), had |-> FALSE]

SeriesSet ==
  \E k \in Keys, v \in Vals :
    /\ SetItem(1, k, v) /\ NoteLast(1, k, v) /\ NoteSet(1, k, v)
    /\ UNCHANGED <<ctrVars, smpVars>>
SeriesGet ==
  \E q \in Queries :
    /\ GetItem(1, q) /\ UNCHANGED <<lastSet, solo>>
    /\ UNCHANGED <<ctrVars, smpVars>>
SeriesDel ==
  \E k \in Keys :
    /\ DelItem(1, k) /\ NoteDel(1, k) /\ UNCHANGED lastSet
    /\ UNCHANGED <<ctrVars, smpVars>>

NextSeries == SeriesSet \/ SeriesGet \/ SeriesDel


SharedKeys == 1..SharedMaxKey

SharedVals == {0, 1}

SharedSet ==
  \E i \in Insts, k \in SharedKeys, v \in SharedVals :
    /\ SetItem(i, k, v) /\ NoteSet(i, k, v) /\ UNCHANGED lastSet
    /\ UNCHANGED <<ctrVars, smpVars>>
SharedGet ==
  \E i \in Insts, q \in 0..(SharedMaxKey + 1) :
    /\ GetItem(i, q) /\ UNCHANGED <<lastSet, solo>>
    /\ UNCHANGED <<ctrVars, smpVars>>
SharedDel ==
  \E i \in Insts, k \in SharedKeys :
    /\ DelItem(i, k) /\ NoteDel(i, k) /\ UNCHANGED lastSet
    /\ UNCHANGED <<ctrVars, smpVars>>

NextShared == SharedSet \/ SharedGet \/ SharedDel


-----------------------------------------------------------------------------
(* Numbers.  A Python float is an IEEE 754 binary64, and the ints the model  *)
(* uses are small enough to be floats exactly, so every number is held as a  *)
(* double: [s, m, e] is s * m * 2^e, with s the sign (1 or -1), m the        *)
(* significand, a natural of exactly Precision bits (zero for 0.0), and e    *)
(* the exponent of its last bit.  Each number has one such record, so two    *)
(* numbers are == in Python exactly when their records are equal.  A         *)
(* significand is a sequence of limbs, least significant first, each in      *)
(* 0..Base-1, without leading zero limbs; <<>> is zero.  Exponents stay far  *)
(* inside the double's range: no infinity and no subnormal arises.           *)

Precision == 53
LimbBits == 15

RECURSIVE Pow2(_)
Pow2(k) == IF k = 0 THEN 1 ELSE 2 * Pow2(k - 1)

Base == Pow2(LimbBits)

\* without leading zero limbs
RECURSIVE BNorm(_)
BNorm(x) ==
  IF x = <<>> THEN x
  ELSE IF x[Len(x)] = 0 THEN BNorm(SubSeq(x, 1, Len(x) - 1)) ELSE x

\* the natural k < Base^3
BFromInt(k) ==
  BNorm(<<k % Base, (k \div Base) % Base, k \div (Base * Base)>>)

BLimb(x, i) == IF i >= 1 /\ i <= Len(x) THEN x[i] ELSE 0

RECURSIVE BitLenInt(_)
BitLenInt(k) == IF k = 0 THEN 0 ELSE 1 + BitLenInt(k \div 2)

\* the number of bits of x
BBitLen(x) ==
  IF x = <<>> THEN 0 ELSE LimbBits * (Len(x) - 1) + BitLenInt(x[Len(x)])

BIsOdd(x) == x /= <<>> /\ x[1] % 2 = 1

\* -1, 0, 1 as x <, =, > y
RECURSIVE BCmpFrom(_, _, _)
BCmpFrom(x, y, i) ==
  IF i = 0 THEN 0
  ELSE IF x[i] < y[i] THEN -1
  ELSE IF x[i] > y[i] THEN 1
  ELSE BCmpFrom(x, y, i - 1)

BCmp(x, y) ==
  IF Len(x) < Len(y) THEN -1
  ELSE IF Len(x) > Len(y) THEN 1
  ELSE BCmpFrom(x, y, Len(x))

\* x + y
RECURSIVE BAddFrom(_, _, _, _)
BAddFrom(x, y, i, t) ==
  IF i > Len(x) /\ i > Len(y)
  THEN <<t>>
  ELSE <<t % Base>> \o
         BAddFrom(x, y, i + 1, BLimb(x, i + 1) + BLimb(y, i + 1) + (t \div Base))

BAdd(x, y) == BNorm(BAddFrom(x, y, 1, BLimb(x, 1) + BLimb(y, 1)))

\* x - y for x >= y
RECURSIVE BSubFrom(_, _, _, _)
BSubFrom(x, y, i, t) ==
  IF i > Len(x) THEN <<>>
  ELSE <<t % Base>> \o
         BSubFrom(x, y, i + 1,
                  BLimb(x, i + 1) - BLimb(y, i + 1) - (IF t < 0 THEN 1 ELSE 0))

BSub(x, y) == BNorm(BSubFrom(x, y, 1, BLimb(x, 1) - BLimb(y, 1)))

\* x * 2^(LimbBits * w) * p for p = 2^b, b < LimbBits
BShlBy(x, w, p) ==
  BNorm([i \in 1..(Len(x) + w + 1) |->
           IF i <= w THEN 0
           ELSE ((BLimb(x, i - w) * p) % Base)
                  + ((BLimb(x, i - w - 1) * p) \div Base)])

\* x * 2^r
BShl(x, r) == BShlBy(x, r \div LimbBits, Pow2(r % LimbBits))

\* x \div (2^(LimbBits * w) * p) for p = 2^b, b < LimbBits
BShrBy(x, w, p) ==
  IF Len(x) <= w THEN <<>>
  ELSE BNorm([i \in 1..(Len(x) - w) |->
                (BLimb(x, i + w) \div p) + ((BLimb(x, i + w + 1) % p) * (Base \div p))])

\* x \div 2^r
BShr(x, r) == BShrBy(x, r \div LimbBits, Pow2(r % LimbBits))

FZero == [s |-> 1, m |-> <<>>, e |-> 0]

\* s * q * 2^e for q of Precision or Precision + 1 bits, the last bit of
\* the longer one being 0
Renorm(s, q, e) ==
  IF BBitLen(q) > Precision
  THEN [s |-> s, m |-> BShr(q, 1), e |-> e + 1]
  ELSE [s |-> s, m |-> q, e |-> e]

\* s * q * 2^e rounded up when the part c cut off compares with a half as
\* c = 1 (more), or c = 0 (a tie) and q is odd
RoundUp(s, q, e, c) ==
  Renorm(s, IF c > 0 \/ (c = 0 /\ BIsOdd(q)) THEN BAdd(q, <<1>>) ELSE q, e)

\* M with its last r > 0 bits cut off, q = M \div 2^r
RoundCut(s, M, e, r, q) ==
  RoundUp(s, q, e + r, BCmp(BSub(M, BShl(q, r)), BShl(<<1>>, r - 1)))

\* M of Precision + r bits
RoundBits(s, M, e, r) ==
  IF r <= 0 THEN [s |-> s, m |-> BShl(M, -r), e |-> e + r]
  ELSE RoundCut(s, M, e, r, BShr(M, r))

\* s * M * 2^e rounded to the nearest double, ties to even
Round(s, M, e) ==
  IF M = <<>> THEN FZero ELSE RoundBits(s, M, e, BBitLen(M) - Precision)

\* the double k * 2^-p for ints k and p >= 0
Dyadic(k, p) ==
  Round(IF k < 0 THEN -1 ELSE 1, BFromInt(IF k < 0 THEN -k ELSE k), -p)

\* float(k) for a Python int k
Float(k) == Dyadic(k, 0)

FIsZero(x) == x.m = <<>>

FSign(x) == IF FIsZero(x) THEN 0 ELSE x.s

\* -1, 0, 1 as |x| <, =, > |y|
FCmpAbs(x, y) ==
  IF FIsZero(x) THEN (IF FIsZero(y) THEN 0 ELSE -1)
  ELSE IF FIsZero(y) THEN 1
  ELSE IF x.e < y.e THEN -1
  ELSE IF x.e > y.e THEN 1
  ELSE BCmp(x.m, y.m)

\* -1, 0, 1 as x <, =, > y
FCmp(x, y) ==
  IF FSign(x) < FSign(y) THEN -1
  ELSE IF FSign(x) > FSign(y) THEN 1
  ELSE FSign(x) * FCmpAbs(x, y)

\* x < y, x <= y, x > y
FLt(x, y) == FCmp(x, y) < 0
FLe(x, y) == FCmp(x, y) <= 0
FGt(x, y) == FCmp(x, y) > 0

\* sa * A + sb * B: its magnitude and its sign
SumMag(sa, A, sb, B) ==
  IF sa = sb THEN BAdd(A, B)
  ELSE IF BCmp(A, B) >= 0 THEN BSub(A, B) ELSE BSub(B, A)
SumSign(sa, A, sb, B) ==
  IF sa = sb \/ BCmp(A, B) >= 0 THEN sa ELSE sb

\* hi + lo for hi.e >= lo.e, neither zero: the exact sum, rounded; an
\* operand below a quarter of the other's last bit does not change it
FAddOrdered(hi, lo, A) ==
  IF hi.e - lo.e > Precision + 2 THEN hi
  ELSE Round(SumSign(hi.s, A, lo.s, lo.m), SumMag(hi.s, A, lo.s, lo.m), lo.e)

\* x + y
FAdd(x, y) ==
  IF FIsZero(x) THEN y
  ELSE IF FIsZero(y) THEN x
  ELSE IF x.e >= y.e THEN FAddOrdered(x, y, BShl(x.m, x.e - y.e))
  ELSE FAddOrdered(y, x, BShl(y.m, y.e - x.e))

\* long division: the next k bits of the quotient rem / d (rem < d) appended
\* to the bits q, paired with the remainder left; r2 is 2 * rem
RECURSIVE DivBits(_, _, _, _), DivStep(_, _, _, _)
DivBits(rem, d, q, k) ==
  IF k = 0 THEN <<q, rem>> ELSE DivStep(BShl(rem, 1), d, q, k)
DivStep(r2, d, q, k) ==
  IF BCmp(r2, d) >= 0 THEN DivBits(BSub(r2, d), d, 2 * q + 1, k - 1)
  ELSE DivBits(r2, d, 2 * q, k - 1)

\* the next k limbs of the quotient put before the limbs acc, paired with the
\* remainder left; qr is the limb just divided out and its remainder
RECURSIVE DivLimbs(_, _, _, _), DivLimb(_, _, _, _)
DivLimbs(rem, d, acc, k) ==
  IF k = 0 THEN <<acc, rem>>
  ELSE DivLimb(DivBits(rem, d, 0, LimbBits), d, acc, k)
DivLimb(qr, d, acc, k) == DivLimbs(qr[2], d, <<qr[1]>> \o acc, k - 1)

\* the quotient qr[1] * 2^e, one more bit telling whether a remainder is left
FDivRound(s, qr, e) ==
  Round(s, BAdd(BShl(BNorm(qr[1]), 1), IF qr[2] = <<>> THEN <<>> ELSE <<1>>), e - 1)

\* x / y for y /= 0: the significands' quotient to 4 limbs below its leading
\* bit, rounded
FDiv(x, y) ==
  IF FIsZero(x) THEN FZero
  ELSE FDivRound(x.s * y.s,
                 DivLimbs(IF BCmp(x.m, y.m) >= 0 THEN BSub(x.m, y.m) ELSE x.m,
                          y.m,
                          <<IF BCmp(x.m, y.m) >= 0 THEN 1 ELSE 0>>,
                          4),
                 x.e - y.e - 4 * LimbBits)

\* sum(seq): left to right from 0
RECURSIVE SumFrom(_, _)
SumFrom(seq, acc) ==
  IF seq = <<>> THEN acc ELSE SumFrom(Tail(seq), FAdd(acc, Head(seq)))

Sum(seq) == SumFrom(seq, FZero)

One == Float(1)

SeqsOf(S, len) == UNION {[1..m -> S] : m \in 1..len}

-----------------------------------------------------------------------------
(* Counter: a dict, here a function from the keys it stores to numbers.    *)
(* Keys are small non-negative ints, which a CPython 2 dict iterates in    *)
(* ascending order.                                                        *)

CtrKeys == 0..MaxCtrKey
\* the numbers assigned to Counter keys
CtrVals == {Float(-1), Float(1)}
EmptyDict == [k \in {} |-> FZero]

\* the keys of a set in ascending order
RECURSIVE Ascending(_)
Ascending(S) ==
  IF S = {} THEN <<>>
  ELSE LET m == CHOOSE x \in S : \A y \in S : x <= y
       IN  <<m>> \o Ascending(S \ {m})

\* dict.keys(), dict.values(), dict.items() in iteration order
DictKeys(d) == Ascending(DOMAIN d)
DictValues(d) == [j \in 1..Len(DictKeys(d)) |-> d[DictKeys(d)[j]]]
DictItems(d) == [j \in 1..Len(DictKeys(d)) |-> <<DictKeys(d)[j], d[DictKeys(d)[j]]>>]

\* d[key] = value
DictSet(d, key, value) ==
  [k \in DOMAIN d \cup {key} |-> IF k = key THEN value ELSE d[k]]

\* a __getitem__ that reads the default without storing it
Counter_getitem_nostore(self, idx) ==
  [dict |-> self, val |-> IF idx \in DOMAIN self THEN self[idx] ELSE FZero]

\* Counter.__getitem__: setdefault(idx, 0), then the stored value;
\* the Counter afterwards and the value returned
Counter_getitem(self, idx) ==
  LET d == IF idx \in DOMAIN self THEN self ELSE DictSet(self, idx, FZero)
  IN  [dict |-> d, val |-> d[idx]]

\* self[key] += value: __getitem__, the sum, __setitem__
AddTo(self, key, value) ==
  LET g == Counter_getitem(self, key)
  IN  DictSet(g.dict, key, FAdd(g.val, value))

\* Counter.incrementAll: the Counter afterwards
RECURSIVE incrementAll(_, _, _)
incrementAll(self, keys, count) ==
  IF keys = <<>> THEN self
  ELSE incrementAll(AddTo(self, Head(keys), count), Tail(keys), count)

\* Counter.totalCount
totalCount(self) == Sum(DictValues(self))

\* max(values) and values.index(x), 0-based
MaxOf(vs) ==
  CHOOSE x \in {vs[j] : j \in 1..Len(vs)} :
    \A j \in 1..Len(vs) : FLe(vs[j], x)
IndexOf(vs, x) ==
  (CHOOSE j \in 1..Len(vs) :
     vs[j] = x /\ \A m \in 1..(j - 1) : vs[m] /= x) - 1

\* Counter.argMax
argMax(self) ==
  IF Len(DictKeys(self)) = 0 THEN None
  ELSE LET all == DictItems(self)
           vs == [j \in 1..Len(all) |-> all[j][2]]
           maxIndex == IndexOf(vs, MaxOf(vs))
       IN  all[maxIndex + 1][1]

\* Counter.sortedKeys: the comparison calls sign, a name util.py never
\* defines, so sorting raises as soon as two items are compared
sortedKeys(self) ==
  LET sortedItems == DictItems(self)
  IN  IF Len(sortedItems) >= 2 THEN Raise("NameError")
      ELSE Ok([j \in 1..Len(sortedItems) |-> sortedItems[j][1]])

\* Counter.normalize: the Counter afterwards
Counter_normalize(self) ==
  LET total == totalCount(self)
  IN  IF FIsZero(total) THEN self
      ELSE [key \in DOMAIN self |-> FDiv(self[key], total)]

\* Counter.divideAll: the Counter afterwards and the outcome; dividing the
\* first value by zero raises before anything is stored
divideAll(self, divisor) ==
  IF FIsZero(divisor) /\ DOMAIN self /= {}
  THEN [dict |-> self, res |-> Raise("ZeroDivisionError")]
  ELSE [dict |-> [key \in DOMAIN self |-> FDiv(self[key], divisor)],
        res |-> Ok(None)]

\* Counter.__radd__: for key, value in y.items(): self[key] += value
RECURSIVE RaddItems(_, _)
RaddItems(self, items) ==
  IF items = <<>> THEN self
  ELSE RaddItems(AddTo(self, Head(items)[1], Head(items)[2]), Tail(items))

Counter_radd(self, y) == RaddItems(self, DictItems(y))

\* the first loop of __add__: for key in self
RECURSIVE AddSelfKeys(_, _, _, _)
AddSelfKeys(keys, self, y, addend) ==
  IF keys = <<>> THEN addend
  ELSE LET key == Head(keys)
       IN  AddSelfKeys(Tail(keys), self, y,
             IF key \in DOMAIN y
             THEN DictSet(addend, key, FAdd(self[key], y[key]))
             ELSE DictSet(addend, key, self[key]))

\* the second loop of __add__: for key in y
RECURSIVE AddOtherKeys(_, _, _, _)
AddOtherKeys(keys, self, y, addend) ==
  IF keys = <<>> THEN addend
  ELSE LET key == Head(keys)
       IN  AddOtherKeys(Tail(keys), self, y,
             IF key \in DOMAIN self
             THEN addend
             ELSE DictSet(addend, key, y[key]))

\* an __add__ that stops after its first loop
Counter_add_first_loop(self, y) ==
  AddSelfKeys(DictKeys(self), self, y, EmptyDict)

\* Counter.__add__: the Counter returned
Counter_add(self, y) ==
  AddOtherKeys(DictKeys(y), self, y,
    AddSelfKeys(DictKeys(self), self, y, EmptyDict))

\* a call on the Counter: its key argument, its Counter argument, its
\* outcome, and for a call that reads the receiver (getitem, normalize) the
\* receiver before it
CtrCall(op, key, y, res, pre) ==
  [op |-> op, key |-> key, other |-> y, res |-> res, pre |-> pre]

\* the Counters passed as arguments
Counters == UNION {[D -> {One}] : D \in SUBSET CtrKeys}

\* c[key] = value (dict.__setitem__, inherited)
CtrAssign(key, value) ==
  /\ ctr' = DictSet(ctr, key, value)
  /\ ctrRet' = CtrCall("assign", key, EmptyDict, Ok(None), EmptyDict)
  /\ UNCHANGED arithCalls

\* c[key]
CtrGetItem(key) ==
  LET g == Counter_getitem(ctr, key)
  IN  /\ ctr' = g.dict
      /\ ctrRet' = CtrCall("getitem", key, EmptyDict, Ok(g.val), ctr)
      /\ UNCHANGED arithCalls

\* c + y
CtrAdd(y) ==
  /\ ctrRet' = CtrCall("add", 0, y, Ok(Counter_add(ctr, y)), EmptyDict)
  /\ UNCHANGED <<ctr, arithCalls>>

\* c.normalize()
CtrNormalize ==
  /\ arithCalls < MaxArith
  /\ arithCalls' = arithCalls + 1
  /\ ctr' = Counter_normalize(ctr)
  /\ ctrRet' = CtrCall("normalize", 0, EmptyDict, Ok(None), ctr)

\* c.incrementAll(keys, count)
CtrIncrementAll(keys, count) ==
  /\ arithCalls < MaxArith
  /\ arithCalls' = arithCalls + 1
  /\ ctr' = incrementAll(ctr, keys, count)
  /\ ctrRet' = CtrCall("incrementAll", 0, EmptyDict, Ok(None), EmptyDict)

\* c.divideAll(divisor)
CtrDivideAll(divisor) ==
  LET r == divideAll(ctr, divisor)
  IN  /\ arithCalls < MaxArith
      /\ arithCalls' = arithCalls + 1
      /\ ctr' = r.dict
      /\ ctrRet' = CtrCall("divideAll", 0, EmptyDict, r.res, EmptyDict)

\* c.__radd__(y)
CtrRadd(y) ==
  /\ arithCalls < MaxArith
  /\ arithCalls' = arithCalls + 1
  /\ ctr' = Counter_radd(ctr, y)
  /\ ctrRet' = CtrCall("radd", 0, EmptyDict, Ok(None), EmptyDict)

CounterAssign ==
  /\ \E k \in CtrKeys, v \in CtrVals : CtrAssign(k, v)
  /\ UNCHANGED <<ffsVars, smpVars>>
CounterGetItem ==
  /\ \E k \in CtrKeys : CtrGetItem(k)
  /\ UNCHANGED <<ffsVars, smpVars>>
CounterAdd ==
  /\ \E y \in Counters \cup {ctr} : CtrAdd(y)
  /\ UNCHANGED <<ffsVars, smpVars>>
CounterNormalize ==
  /\ CtrNormalize
  /\ UNCHANGED <<ffsVars, smpVars>>
CounterIncrementAll ==
  /\ \E k \in CtrKeys : \E keys \in {<<k>>, <<k, k>>} : CtrIncrementAll(keys, One)
  /\ UNCHANGED <<ffsVars, smpVars>>
CounterDivideAll ==
  /\ \E divisor \in {Float(0), Float(2)} : CtrDivideAll(divisor)
  /\ UNCHANGED <<ffsVars, smpVars>>
CounterRadd ==
  /\ \E y \in Counters \cup {ctr} : CtrRadd(y)
  /\ UNCHANGED <<ffsVars, smpVars>>

NextCounter ==
  \/ CounterAssign
  \/ CounterGetItem
  \/ CounterAdd
  \/ CounterNormalize
  \/ CounterIncrementAll
  \/ CounterDivideAll
  \/ CounterRadd

-----------------------------------------------------------------------------
(* Sampling.  Python objects carry their type, as the code dispatches on   *)
(* it; random.random() is an input, a multiple of 2^-53 in [0, 1).         *)

PyNone == [type |-> "NoneType"]
PyList(s) == [type |-> "list", elems |-> s]
PyDict(d) == [type |-> "dict", dict |-> d]
PyCounter(d) == [type |-> "Counter", dict |-> d]

ReturnsNone == [kind |-> "None", val |-> None]

\* random.random(): 0, its least positive value, 1/4, 1/2, 3/4 and its greatest
Draws ==
  {FZero, Dyadic(1, Precision), Dyadic(1, 2), Dyadic(1, 1), Dyadic(3, 2),
   FAdd(One, Dyadic(-1, Precision))}

\* what iterating over obj yields: the elements of a list, the keys of a dict
Iter(obj) ==
  IF obj.type = "list" THEN obj.elems
  ELSE [j \in 1..Len(DictKeys(obj.dict)) |-> Float(DictKeys(obj.dict)[j])]

\* obj[i] for an int i >= 0
Index(obj, i) ==
  CASE obj.type = "list" ->
         IF i < Len(obj.elems) THEN Ok(obj.elems[i + 1]) ELSE Raise("IndexError")
    [] obj.type = "dict" ->
         IF i \in DOMAIN obj.dict THEN Ok(obj.dict[i]) ELSE Raise("KeyError")
    [] obj.type = "Counter" -> Ok(Counter_getitem(obj.dict, i).val)
    [] OTHER -> Raise("TypeError")

\* normalize(vectorOrCounter)
normalize(vectorOrCounter) ==
  IF vectorOrCounter.type = "Counter"
  THEN LET counter == vectorOrCounter.dict
           total == totalCount(counter)
       IN  IF FIsZero(total) THEN vectorOrCounter
           ELSE PyCounter([key \in DOMAIN counter |-> FDiv(counter[key], total)])
  ELSE LET vector == Iter(vectorOrCounter)
           s == Sum(vector)
       IN  IF FIsZero(s) THEN vectorOrCounter
           ELSE PyList([j \in 1..Len(vector) |-> FDiv(vector[j], s)])

\* lines 303-304 of sample, 283-284 of nSample
NormalizeUnlessOne(dist) ==
  IF Sum(Iter(dist)) /= One THEN normalize(dist) ELSE dist

\* the loop of sample: the index i it ends at, or the exception
RECURSIVE sample_loop(_, _, _, _)
sample_loop(dist, choice, i, total) ==
  IF FGt(choice, total)
  THEN LET nxt == Index(dist, i + 1)
       IN  IF nxt.kind /= "ok" THEN nxt
           ELSE sample_loop(dist, choice, i + 1, FAdd(total, nxt.val))
  ELSE Ok(i)

\* the distribution sample walks: lines 299-304
sample_distribution(dist) ==
  NormalizeUnlessOne(
    IF dist.type = "Counter" THEN PyList(DictValues(dist.dict)) ELSE dist)

\* the values sample returns from: lines 299-302
sample_values(dist, vals) ==
  IF dist.type = "Counter" THEN PyList(DictKeys(dist.dict)) ELSE vals

\* the index i at line 310, or the exception raised before it
sample_index(dist, choice) ==
  LET d == sample_distribution(dist)
      first == Index(d, 0)
  IN  IF first.kind /= "ok" THEN first
      ELSE sample_loop(d, choice, 0, first.val)

\* sample(distribution, values) when random.random() returns choice
sample(dist, vals, choice) ==
  LET i == sample_index(dist, choice)
  IN  IF i.kind /= "ok" THEN i ELSE Index(sample_values(dist, vals), i.val)

\* the for loop of chooseFromDistribution over (prob, element) pairs
RECURSIVE choose_loop(_, _, _)
choose_loop(pairs, r, base) ==
  IF pairs = <<>> THEN ReturnsNone
  ELSE LET base2 == FAdd(base, Head(pairs)[1])
       IN  IF FLe(r, base2) THEN Ok(Head(pairs)[2])
           ELSE choose_loop(Tail(pairs), r, base2)

\* chooseFromDistribution(distribution) when random.random() returns r
chooseFromDistribution(dist, r) ==
  IF dist.type = "dict" \/ dist.type = "Counter"
  THEN sample(dist, PyNone, r)
  ELSE choose_loop(dist.elems, r, FZero)

\* list.sort() on numbers
RECURSIVE ListSort(_)
ListSort(seq) ==
  IF seq = <<>> THEN <<>>
  ELSE LET j == CHOOSE a \in 1..Len(seq) : \A b \in 1..Len(seq) : FLe(seq[a], seq[b])
       IN  <<seq[j]>> \o ListSort(SubSeq(seq, 1, j - 1) \o SubSeq(seq, j + 1, Len(seq)))

(* Inputs *)
Weights == {Float(0), Dyadic(1, 1), Float(1), Float(2)}
Outcomes == {"x", "y"}
Dists == SeqsOf(Weights, MaxLen)
Mappings == UNION {[D -> Weights] : D \in (SUBSET CtrKeys) \ {{}}}
PairLists == SeqsOf(Weights \X Outcomes, 2)

SmpCall(fn, dist, vals, choice, res) ==
  [fn |-> fn, distribution |-> dist, values |-> vals, choice |-> choice,
   res |-> res]

NoSmpCall == SmpCall("none", PyNone, PyNone, FZero, ReturnsNone)

\* Each behaviour makes one call, on inputs of its choice.
NoCallYet == pc = "idle" /\ smpRet = NoSmpCall

\* no call of nSample is in progress or has left a result
NSampleIdle ==
  /\ pc' = "idle"
  /\ distribution' = <<>>
  /\ values' = <<>>
  /\ n' = 0
  /\ rand' = <<>>
  /\ samplePos' = 0
  /\ distPos' = 0
  /\ cdf' = FZero
  /\ samples' = <<>>

\* sample(dist, vals)
CallSample ==
  /\ NoCallYet
  /\ \E dist \in Dists, choice \in Draws :
       \E vals \in [1..Len(dist) -> Outcomes] :
         smpRet' = SmpCall("sample", PyList(dist), PyList(vals), choice,
                           sample(PyList(dist), PyList(vals), choice))
  /\ NSampleIdle
  /\ UNCHANGED <<ffsVars, ctrVars>>

\* chooseFromDistribution(d) for a dict or a Counter d
CallChooseMapping ==
  /\ NoCallYet
  /\ \E d \in Mappings, t \in {"dict", "Counter"}, r \in Draws :
       LET dist == IF t = "dict" THEN PyDict(d) ELSE PyCounter(d)
       IN  smpRet' = SmpCall("choose", dist, PyNone, r,
                             chooseFromDistribution(dist, r))
  /\ NSampleIdle
  /\ UNCHANGED <<ffsVars, ctrVars>>

\* chooseFromDistribution(pairs) for a list of (prob, element) pairs
CallChoosePairs ==
  /\ NoCallYet
  /\ \E pairs \in PairLists, r \in Draws :
       smpRet' = SmpCall("choose", PyList(pairs), PyNone, r,
                         chooseFromDistribution(PyList(pairs), r))
  /\ NSampleIdle
  /\ UNCHANGED <<ffsVars, ctrVars>>

\* nSample(dist, vals, k), up to the while loop: lines 283-288
NSampleCall ==
  /\ NoCallYet
  /\ \E dist \in Dists, k \in 0..MaxN :
       \E normalized \in {NormalizeUnlessOne(PyList(dist)).elems} :
         \E vals \in [1..Len(dist) -> Outcomes], draws \in [1..k -> Draws] :
           /\ distribution' = normalized
           /\ values' = vals
           /\ n' = k
           /\ rand' = ListSort(draws)
           /\ samples' = <<>>
           /\ samplePos' = 0
           /\ distPos' = 0
           /\ cdf' = normalized[1]
           /\ pc' = "loop"
  /\ smpRet' = NoSmpCall
  /\ UNCHANGED <<ffsVars, ctrVars>>

\* one evaluation of the while condition and the body: lines 289-296
NSampleStep ==
  /\ pc = "loop"
  /\ IF samplePos < n
     THEN IF FLt(rand[samplePos + 1], cdf)
          THEN /\ samplePos' = samplePos + 1
               /\ samples' = Append(samples, values[distPos + 1])
               /\ UNCHANGED <<distPos, cdf, pc>>
          ELSE /\ distPos' = distPos + 1
               /\ IF distPos + 1 < Len(distribution)
                  THEN /\ cdf' = FAdd(cdf, distribution[distPos + 2])
                       /\ pc' = pc
                  ELSE /\ cdf' = cdf
                       /\ pc' = "IndexError"
               /\ UNCHANGED <<samplePos, samples>>
     ELSE /\ pc' = "done"
          /\ UNCHANGED <<samplePos, samples, distPos, cdf>>
  /\ UNCHANGED <<distribution, values, n, rand, smpRet>>
  /\ UNCHANGED <<ffsVars, ctrVars>>

NextSample ==
  CallSample \/ CallChooseMapping \/ CallChoosePairs \/ NSampleCall \/ NSampleStep

-----------------------------------------------------------------------------
(* Specifications *)

NoCtrCall ==
  CtrCall("none", 0, EmptyDict, Ok(None), EmptyDict)

\* Nothing has been called yet: two series built by ForwardFillSeries(), both
\* holding the constructor's default mapping, and two Counter()s.
Init ==
  /\ heap = [o \in ObjIds |-> <<>>]
  /\ ref = [i \in Insts |-> SharedDefault]
  /\ default_val = [i \in Insts |-> None]
  /\ ffsRet = NoCall
  /\ lastSet = [i \in Insts |-> [k \in Keys |-> None]]
  /\ solo = [i \in Insts |-> <<>>]
  /\ ctr = EmptyDict
  /\ ctrRet = NoCtrCall
  /\ arithCalls = 0
  /\ smpRet = NoSmpCall
  /\ pc = "idle"
  /\ distribution = <<>>
  /\ values = <<>>
  /\ n = 0
  /\ rand = <<>>
  /\ samplePos = 0
  /\ distPos = 0
  /\ cdf = FZero
  /\ samples = <<>>

\* As Init, with instance 1 built by ForwardFillSeries(default_val = d)
InitSeries ==
  /\ heap = [o \in ObjIds |-> <<>>]
  /\ ref = [i \in Insts |-> SharedDefault]
  /\ \E d \in Defaults : default_val = [i \in Insts |-> IF i = 1 THEN d ELSE None]
  /\ ffsRet = NoCall
  /\ lastSet = [i \in Insts |-> [k \in Keys |-> None]]
  /\ solo = [i \in Insts |-> <<>>]
  /\ ctr = EmptyDict
  /\ ctrRet = NoCtrCall
  /\ arithCalls = 0
  /\ smpRet = NoSmpCall
  /\ pc = "idle"
  /\ distribution = <<>>
  /\ values = <<>>
  /\ n = 0
  /\ rand = <<>>
  /\ samplePos = 0
  /\ distPos = 0
  /\ cdf = FZero
  /\ samples = <<>>

SpecSeries == InitSeries /\ [][NextSeries]_vars

SpecShared == Init /\ [][NextShared]_vars

SpecCounter == Init /\ [][NextCounter]_vars

SpecSample == Init /\ [][NextSample]_vars

-----------------------------------------------------------------------------
(* Claims about ForwardFillSeries *)

StoredKeys(i) == KeySet(ItemsOf(i))

\* the greatest stored key <= q
Floor(i, q) ==
  CHOOSE k \in StoredKeys(i) :
    k <= q /\ \A m \in StoredKeys(i) : m <= q => m <= k

\* C1: a get(q) with q >= some stored key returns the value most recently
\* set for the greatest stored key <= q.
C1_ForwardFill ==
  (ffsRet.op = "get" /\ \E k \in StoredKeys(1) : k <= ffsRet.key) =>
     ffsRet.res = Ok(lastSet[1][Floor(1, ffsRet.key)])

\* A get between two stored keys, for a key that was set and later deleted.
C1_Witness ==
  /\ ffsRet.op = "get" /\ ~ffsRet.had
  /\ ffsRet.key \in Keys
  /\ lastSet[1][ffsRet.key] /= None
  /\ \E k \in StoredKeys(1) : k < ffsRet.key
  /\ \E k \in StoredKeys(1) : k > ffsRet.key
  /\ ffsRet.res = Ok(lastSet[1][Floor(1, ffsRet.key)])

\* C2: a get(q) with q below every stored key raises KeyError when no
\* default was configured and returns the configured default otherwise,
\* whatever that default is.
C2_DefaultOrKeyError ==
  (ffsRet.op = "get" /\ \A k \in StoredKeys(1) : ffsRet.key < k) =>
     ffsRet.res = IF default_val[1] = None
                  THEN Raise("KeyError")
                  ELSE Ok(default_val[1])

\* C3: the stored entries are in strictly ascending key order.
C3_StrictlyAscending ==
  \A j \in 1..(Len(ItemsOf(1)) - 1) : ItemsOf(1)[j][1] < ItemsOf(1)[j + 1][1]

\* A key already present, in the middle of a full series, has just been set.
C3_Witness ==
  /\ ffsRet.op = "set" /\ ffsRet.had
  /\ Len(ItemsOf(1)) = MaxKey
  /\ ItemsOf(1)[1][1] < ffsRet.key /\ ffsRet.key < ItemsOf(1)[MaxKey][1]
  /\ Lookup(ItemsOf(1), ffsRet.key) = lastSet[1][ffsRet.key]

\* C10: the entries of each of two instances built without an initial mapping
\* are those its own calls produce, and the shared default mapping stays empty.
C10_Independent ==
  /\ \A i \in Insts : ItemsOf(i) = solo[i]
  /\ heap[SharedDefault] = <<>>

\* One instance has just deleted a key while the other holds other entries.
C10_Witness ==
  /\ ffsRet.op = "del" /\ ffsRet.res = Ok(None)
  /\ ItemsOf(1) /= <<>> /\ ItemsOf(2) /= <<>>
  /\ StoredKeys(1) /= StoredKeys(2)
  /\ ref[1] /= ref[2]

-----------------------------------------------------------------------------
(* Claims about Counter *)

\* a.get(k), an absent key counting as 0
GetOr0(d, k) == IF k \in DOMAIN d THEN d[k] ELSE FZero

\* C6: normalize() on an empty Counter does not return normally.
C6_NormalizeEmptyRaises ==
  (ctrRet.op = "normalize" /\ ctrRet.pre = EmptyDict) => ctrRet.res.kind /= "ok"

\* C8: a + b has the union of the keys of a and b, each key holding the sum
\* of the operands' values, an absent key counting as 0.
C8_AddUnion ==
  ctrRet.op = "add" =>
    LET a == ctr
        b == ctrRet.other
    IN  /\ DOMAIN ctrRet.res.val = DOMAIN a \cup DOMAIN b
        /\ \A k \in DOMAIN ctrRet.res.val :
             ctrRet.res.val[k] = FAdd(GetOr0(a, k), GetOr0(b, k))

\* a + b was computed where b has a key a lacks and both hold a non-zero
\* value for another key.
C8_Witness ==
  /\ ctrRet.op = "add"
  /\ DOMAIN ctrRet.other \ DOMAIN ctr /= {}
  /\ \E k \in DOMAIN ctr \cap DOMAIN ctrRet.other :
       /\ ~FIsZero(ctr[k]) /\ ~FIsZero(ctrRet.other[k])
       /\ ctrRet.res.val[k] = FAdd(ctr[k], ctrRet.other[k])
       /\ ctrRet.res.val[k] /= ctr[k]

\* C9: indexing an absent key k returns 0 and stores k with value 0: k is
\* then among the keys (sortedKeys lists it, argMax returns it when every
\* other value is negative), there is one more key, and the other values
\* and the total are as before.
C9_ReadStoresZero ==
  (ctrRet.op = "getitem" /\ ctrRet.key \notin DOMAIN ctrRet.pre) =>
    LET c == ctr
        k == ctrRet.key
    IN  /\ ctrRet.res = Ok(FZero)
        /\ k \in DOMAIN c /\ c[k] = FZero
        /\ Cardinality(DOMAIN c) = Cardinality(DOMAIN ctrRet.pre) + 1
        /\ \A j \in DOMAIN ctrRet.pre : c[j] = ctrRet.pre[j]
        /\ totalCount(c) = totalCount(ctrRet.pre)
        /\ (\A j \in DOMAIN ctrRet.pre : FLt(ctrRet.pre[j], FZero)) => argMax(c) = k
        /\ ctrRet.pre = EmptyDict => sortedKeys(c) = Ok(<<k>>)

\* An absent key was read from a Counter whose other values are negative,
\* and argMax now returns it.
C9_Witness ==
  /\ ctrRet.op = "getitem" /\ ctrRet.key \notin DOMAIN ctrRet.pre
  /\ ctrRet.pre /= EmptyDict
  /\ \A j \in DOMAIN ctrRet.pre : FLt(ctrRet.pre[j], FZero)
  /\ argMax(ctr) = ctrRet.key

-----------------------------------------------------------------------------
(* Claims about sampling *)

\* C4: sample([0.0, 1.0], ['x', 'y']) returns 'y' for every draw, and for
\* non-negative weights with positive total sample never returns a value
\* whose paired probability is 0.
C4_NeverZeroProbability ==
  (smpRet.fn = "sample" /\ FGt(Sum(smpRet.distribution.elems), FZero)) =>
    LET d == smpRet.distribution.elems
        v == smpRet.values.elems
    IN  /\ smpRet.res.kind = "ok"
        /\ \E j \in 1..Len(d) : v[j] = smpRet.res.val /\ FGt(d[j], FZero)
        /\ (smpRet.distribution.elems = <<FZero, One>> /\ v = <<"x", "y">>)
             => smpRet.res = Ok("y")

\* C5: for a non-empty distribution of non-negative weights with positive
\* total, nSample never indexes past the end of the distribution, every
\* sample is a values[i] with distribution[i] > 0, it returns exactly n
\* samples, and for the distribution [1.0] every sample is values[0].
C5_NSampleInBounds ==
  (pc /= "idle" /\ FGt(Sum(distribution), FZero)) =>
    /\ pc /= "IndexError"
    /\ distPos < Len(distribution)
    /\ \A j \in 1..Len(samples) :
         \E i \in 1..Len(distribution) :
           values[i] = samples[j] /\ FGt(distribution[i], FZero)
    /\ pc = "done" => Len(samples) = n
    /\ distribution = <<One>> => \A j \in 1..Len(samples) : samples[j] = values[1]

\* the outcomes a distribution offers: a mapping's keys, a pair list's elements
OutcomesOf(dist) ==
  IF dist.type = "list"
  THEN {dist.elems[j][2] : j \in 1..Len(dist.elems)}
  ELSE DOMAIN dist.dict

\* the probabilities of a distribution, in iteration order
ProbsOf(dist) ==
  IF dist.type = "list"
  THEN [j \in 1..Len(dist.elems) |-> dist.elems[j][1]]
  ELSE DictValues(dist.dict)

\* C7: chooseFromDistribution returns one of the keys of a dict or Counter
\* of probabilities, and one of the outcomes of a list of (probability,
\* outcome) pairs summing to 1; it neither raises nor returns nothing.
C7_ChooseReturnsOutcome ==
  (smpRet.fn = "choose" /\ Sum(ProbsOf(smpRet.distribution)) = One) =>
    /\ smpRet.res.kind = "ok"
    /\ smpRet.res.val \in OutcomesOf(smpRet.distribution)

====
